---- MODULE Spec2Model ----
(***************************************************************************)
(* Model of final.py: the Zerodha token refresher.                         *)
(*   - ZerodhaClient.login under @retry (one browser session per attempt)  *)
(*   - the request_token extraction from the redirect URL                  *)
(*   - save_token_to_mongo (upsert keyed by updatedBy)                     *)
(*   - main (login, save, print, exit status)                              *)
(* A URL is a sequence of symbols.  The markers "request_token" and        *)
(* "status=success" are single symbols: neither marker overlaps itself or  *)
(* the other, so substring search and split on them act on whole symbols.  *)
(***************************************************************************)
EXTENDS Integers, Sequences, FiniteSets, TLC

\* ------------------------------------------------------------------ bounds
MaxUrlLen == 5
MaxClock == 2
MaxSaves == 3
MaxTokens == 2
MaxButtons == 2

\* ------------------------------------------------------- program constants
stop_max_attempt_number == 3
max_retries == 3
ExpiryHours == 24
TOKEN_UPDATED_BY == "aiman.singh30@gmail.com"

\* --------------------------------------------------------------- alphabet
RT == "request_token"
SS == "status=success"
Alphabet == {RT, SS, "=", "&", "#", "a"}
StripChars == {"=", "&", "#", "?", "/"}
AllUrls == UNION {[1..n -> Alphabet] : n \in 0..MaxUrlLen}
RT_EQ == <<RT, "=">>

\* ------------------------------------------------- python string helpers
\* p occurs in s starting at index i
OccursAt(s, p, i) ==
    /\ i >= 1
    /\ i + Len(p) - 1 <= Len(s)
    /\ \A k \in 1..Len(p) : s[i + k - 1] = p[k]

\* python: p in s
Contains(s, p) == \E i \in 1..(Len(s) + 1) : OccursAt(s, p, i)

\* python: s.find(p) + 1 (0 when absent)
Find(s, p) ==
    IF Contains(s, p)
    THEN CHOOSE i \in 1..(Len(s) + 1) :
            /\ OccursAt(s, p, i)
            /\ \A j \in 1..(i - 1) : ~OccursAt(s, p, j)
    ELSE 0

RECURSIVE Split(_, _)
\* python: s.split(sep), sep non-empty; every occurrence splits
Split(s, sep) ==
    LET i == Find(s, sep) IN
    IF i = 0 THEN <<s>>
    ELSE <<SubSeq(s, 1, i - 1)>> \o Split(SubSeq(s, i + Len(sep), Len(s)), sep)

RECURSIVE LStrip(_, _)
\* python: s.lstrip(chars)
LStrip(s, chars) ==
    IF s # <<>> /\ Head(s) \in chars THEN LStrip(Tail(s), chars) ELSE s

\* ------------------------------------------------------------- extraction
\* the extraction without its final else branch: no marker gives an empty token
ExtractToken_noElse(url) ==
    IF Contains(url, RT_EQ)
    THEN [ok |-> TRUE, rt |-> Split(Split(url, RT_EQ)[2], <<"&">>)[1]]
    ELSE IF Contains(url, <<RT>>)
         THEN [ok |-> TRUE, rt |-> LStrip(Split(url, <<RT>>)[2], StripChars)]
         ELSE [ok |-> TRUE, rt |-> <<>>]

\* lines 380-389: the request token read out of rt_url, or TokenNotFound
ExtractToken(url) ==
    IF Contains(url, RT_EQ)
    THEN [ok |-> TRUE, rt |-> Split(Split(url, RT_EQ)[2], <<"&">>)[1]]
    ELSE IF Contains(url, <<RT>>)
         THEN LET parts == Split(url, <<RT>>) IN
              IF Len(parts) > 1
              THEN [ok |-> TRUE, rt |-> LStrip(parts[2], StripChars)]
              ELSE [ok |-> FALSE, rt |-> <<>>]
         ELSE [ok |-> FALSE, rt |-> <<>>]


\* ---------------------------------------------------------------- mongo
\* a document of collection zerodhatokens (lines 172-181)
TokenDoc(tok, updatedAt, createdAt) ==
    [updatedBy |-> TOKEN_UPDATED_BY, accessToken |-> tok,
     updatedAt |-> updatedAt, expiresAt |-> updatedAt + ExpiryHours,
     isActive |-> TRUE, createdAt |-> createdAt]

\* index of the first document matching {"updatedBy": TOKEN_UPDATED_BY}, or 0
FirstMatch(c) ==
    IF \E i \in 1..Len(c) : c[i].updatedBy = TOKEN_UPDATED_BY
    THEN CHOOSE i \in 1..Len(c) :
            /\ c[i].updatedBy = TOKEN_UPDATED_BY
            /\ \A j \in 1..(i - 1) : c[j].updatedBy # TOKEN_UPDATED_BY
    ELSE 0

\* update_one without the filter match: every call inserts
update_one_insert(c, tok, now) == Append(c, TokenDoc(tok, now, now))

\* lines 166-184: coll.update_one(filter, {$set, $setOnInsert}, upsert=True)
update_one(c, tok, now) ==
    LET m == FirstMatch(c) IN
    IF m = 0
    THEN Append(c, TokenDoc(tok, now, now))
    ELSE [c EXCEPT ![m] = TokenDoc(tok, now, c[m].createdAt)]

\* documents present before the program runs
OldDoc == [updatedBy |-> TOKEN_UPDATED_BY, accessToken |-> -1,
           updatedAt |-> -30, expiresAt |-> -6,
           isActive |-> FALSE, createdAt |-> -30]
OtherDoc == [updatedBy |-> "someone.else", accessToken |-> -2,
             updatedAt |-> -30, expiresAt |-> -6,
             isActive |-> TRUE, createdAt |-> -30]
InitialColls == {<<>>, <<OldDoc>>, <<OtherDoc>>, <<OtherDoc, OldDoc>>}
Times == 0..MaxClock

\* ------------------------------------------------------------------ state
VARIABLES
    pc,                 \* position in main / login / the retry wrapper
    attempt_number,     \* retrying's attempt counter (1-based)
    chrome_driver_path, \* APP_CONFIG: is a fixed driver path configured
    chrome_user_data_dir, \* APP_CONFIG.get("chrome_user_data_dir")
    GITHUB_ACTIONS,     \* os.getenv("GITHUB_ACTIONS")
    CHROME_BIN,         \* os.getenv("CHROME_BIN")
    chrome_options,     \* local chrome_options as lines 223-241 built it
    kite,               \* self.kite: id of the KiteConnect object, 0 = None
    driver,             \* local driver: session id, 0 = None
    sessions,           \* number of browser sessions launched so far
    alive,              \* sessions launched on which quit was not yet invoked
    launches,           \* sessions launched in the current attempt
    quits,              \* driver.quit() invocations in the current attempt
    launch_log,         \* outcomes of the browser starts tried in the attempt
    quit_raised,        \* did driver.quit() raise in the attempt
    failure,            \* exception in flight in the current attempt
    entry_attempt,      \* loop variable of the TOTP entry loop (line 320)
    entryTries,         \* clear+send_keys tries made in the current attempt
    submit_attempt,     \* loop variable of the TOTP submit loop (line 339)
    submitClicks,       \* successful TOTP submit clicks in the current attempt
    page,               \* the buttons of the first screen as line 290 found
                        \* them, in document order; kept for one step
    clicked,            \* index in page of the button whose click() was
                        \* called, 0 = none, -1 = no lookup; kept for one step
    firstClicks,        \* first-screen clicks that returned, in the attempt
    poll,               \* the two URLs the latest submit try read at lines
                        \* 362-363 when it found no control; kept for one step
    absentTries,        \* submit tries so far that found no control and no
                        \* marker; kept until the step after the loop
    wait_url,           \* URL the terminal wait ended on (line 375), until line 378 reads anew
    rt_url,             \* local rt_url (line 378)
    rt,                 \* local rt (lines 381/385)
    session_arg,        \* request token handed to generate_session (line 391)
    data,               \* access_token field of generate_session's result
    access_token,       \* self.access_token, 0 = None
    exchanges,          \* generate_session calls: [attempt, token], 0 = it raised
    outcomes,           \* outcome of each finished attempt
    result,             \* value login returned to main, 0 = none
    saveCalls,          \* arguments of the save_token_to_mongo calls
    coll,               \* documents of collection zerodhatokens
    printed,            \* what line 430 printed, 0 = nothing
    exit_status,        \* process exit status, -1 = still running
    logged              \* error logs written by main and save_token_to_mongo

browser == <<driver, sessions, alive, launches, quits, launch_log, quit_raised>>
environ == <<GITHUB_ACTIONS, CHROME_BIN, chrome_user_data_dir>>
setup == <<environ, chrome_options>>
first_screen == <<page, clicked, firstClicks>>
loops == <<entry_attempt, entryTries, submit_attempt, submitClicks, poll, absentTries>>
urlv == <<wait_url, rt_url, rt, session_arg>>
api == <<kite, data, access_token, exchanges>>
mainv == <<result, saveCalls, coll, printed, exit_status>>
vars == <<pc, attempt_number, chrome_driver_path, setup, failure, outcomes, logged,
          browser, loops, first_screen, urlv, api, mainv>>

\* URLs the browser shows in the login flow
ObservedUrls ==
    { <<RT, "=", "a">>, <<RT, "=", "a", "&", SS>>, <<SS>>, <<"a">>,
      <<RT, "#", "a">>, <<RT, "=">>, <<RT, "=", "a", RT, "=", "a">> }

\* URLs the browser shows while the TOTP page is up
PolledUrls == { <<RT, "=", "a">>, <<SS>>, <<"a">> }

NoUrl == <<"-">>
NoPoll == <<>>

\* what os.getenv and dict.get return for a missing name
None == "<None>"

\* values of an environment variable or a configuration entry
EnvValues == {None, "", "true", "True", "false", "1"}
BinValues == {None, "", "/opt/chrome"}
DirValues == {None, "", "/profile"}

\* Python truth of a string or None
Truthy(v) == v \notin {None, ""}

\* the local chrome_options before line 223
NoOptions == [args |-> <<>>, experimental |-> {}, binary_location |-> ""]

\* lines 234-241: the arguments added on a CI runner
CiArgs ==
    << <<"--headless=new">>, <<"--no-sandbox">>, <<"--disable-dev-shm-usage">>,
       <<"--disable-gpu">>, <<"--window-size=1920,1080">>,
       <<"--remote-debugging-port=9222">> >>

\* lines 221-241: the options built from the environment and the configuration
chrome_options_for(github_actions, chrome_bin, user_data_dir) ==
    LET dir == IF Truthy(user_data_dir) THEN user_data_dir ELSE ""
        profile == IF Truthy(dir) /\ ~Truthy(github_actions)
                   THEN << <<"--user-data-dir", dir>> >>
                   ELSE <<>>
        ci == github_actions = "true"
    IN  [args |-> IF ci THEN profile \o CiArgs ELSE profile,
         experimental |-> {"excludeSwitches", "useAutomationExtension"},
         binary_location |->
             IF ci
             THEN (IF chrome_bin = None THEN "/usr/bin/chromium-browser"
                   ELSE chrome_bin)
             ELSE ""]

\* lines 204-208 and the first call of the wrapper
Init ==
    /\ pc = "login_start"
    /\ attempt_number = 1
    /\ chrome_driver_path \in BOOLEAN
    /\ GITHUB_ACTIONS = None /\ CHROME_BIN = None /\ chrome_user_data_dir = None
    /\ chrome_options = NoOptions
    /\ kite = 0 /\ access_token = 0 /\ data = 0 /\ exchanges = <<>>
    /\ driver = 0 /\ sessions = 0 /\ alive = {} /\ launches = 0 /\ quits = 0
    /\ launch_log = <<>> /\ quit_raised = FALSE
    /\ failure = "none" /\ outcomes = <<>> /\ logged = {}
    /\ entry_attempt = 0 /\ entryTries = 0
    /\ submit_attempt = 0 /\ submitClicks = 0
    /\ page = <<>> /\ clicked = -1 /\ firstClicks = 0
    /\ poll = NoPoll /\ absentTries = 0
    /\ wait_url = NoUrl /\ rt_url = NoUrl /\ rt = <<>> /\ session_arg = NoUrl
    /\ result = 0 /\ saveCalls = <<>> /\ coll \in {<<>>, <<OtherDoc, OldDoc>>}
    /\ printed = 0 /\ exit_status = -1

\* an exception that is noted while the flow goes on where it was
RaiseInTry_goOn(reason) ==
    /\ failure' = reason
    /\ pc' = pc

\* an exception raised inside the try block of login (lines 267-406)
RaiseInTry(reason) ==
    /\ failure' = reason
    /\ pc' = "except"

\* an exception raised before the try block (lines 216-265)
RaiseBeforeTry(reason) ==
    /\ failure' = reason
    /\ outcomes' = Append(outcomes, "fail")
    /\ pc' = "retry"


\* a browser session comes up: webdriver.Chrome(...) returned
StartSession(how) ==
    /\ driver' = sessions + 1
    /\ sessions' = sessions + 1
    /\ alive' = alive \cup {sessions + 1}
    /\ launches' = launches + 1
    /\ launch_log' = Append(launch_log, how)
    /\ UNCHANGED <<quits, quit_raised>>

\* a browser start that raised
StartFailed(how) ==
    /\ launch_log' = Append(launch_log, how)
    /\ UNCHANGED <<driver, sessions, alive, launches, quits, quit_raised>>

\* ------------------------------------------------------------ login body
\* lines 216-218 and 243: new KiteConnect, login_url(), driver = None
LoginStart ==
    /\ pc = "login_start"
    /\ kite' = attempt_number
    /\ data' = 0
    /\ driver' = 0 /\ launches' = 0 /\ quits' = 0
    /\ launch_log' = <<>> /\ quit_raised' = FALSE
    /\ entry_attempt' = 0 /\ entryTries' = 0
    /\ submit_attempt' = 0 /\ submitClicks' = 0
    /\ page' = <<>> /\ clicked' = -1 /\ firstClicks' = 0
    /\ poll' = NoPoll /\ absentTries' = 0
    /\ wait_url' = NoUrl /\ rt_url' = NoUrl /\ rt' = <<>> /\ session_arg' = NoUrl
    /\ \/ /\ pc' = "launch"
          /\ chrome_options' =
                chrome_options_for(GITHUB_ACTIONS, CHROME_BIN, chrome_user_data_dir)
          /\ failure' = "none"
          /\ UNCHANGED outcomes
       \/ /\ RaiseBeforeTry("ApiFailure")
          /\ chrome_options' = NoOptions
    /\ UNCHANGED <<attempt_number, chrome_driver_path, environ, logged, sessions, alive,
                   access_token, exchanges, mainv>>

\* lines 246-253: start with the configured driver path, fall through on failure
LaunchPath ==
    /\ pc = "launch"
    /\ IF chrome_driver_path
       THEN \/ StartSession("path_ok")
            \/ StartFailed("path_fail")
       ELSE UNCHANGED browser
    /\ pc' = "launch_wdm"
    /\ UNCHANGED <<attempt_number, chrome_driver_path, setup, failure, outcomes, logged,
                   loops, first_screen, urlv, api, mainv>>

\* a launcher that resolves the driver automatically in any case
need_wdm_always(d) == TRUE

\* line 256: if driver is None
need_wdm(d) == d = 0

\* lines 256-265: webdriver-manager; a failure here leaves login before the try
LaunchWdm ==
    /\ pc = "launch_wdm"
    /\ IF need_wdm(driver)
       THEN \/ /\ StartSession("wdm_ok")
               /\ pc' = "navigate"
               /\ UNCHANGED <<failure, outcomes>>
            \/ /\ StartFailed("wdm_fail")
               /\ RaiseBeforeTry("LaunchFailure")
       ELSE /\ pc' = "navigate"
            /\ UNCHANGED <<failure, outcomes, browser>>
    /\ UNCHANGED <<attempt_number, chrome_driver_path, setup, logged, loops, first_screen, urlv, api, mainv>>

\* a step inside the try block that touches nothing but the page
PageStep(from, to, reason) ==
    /\ pc = from
    /\ \/ /\ pc' = to
          /\ UNCHANGED failure
       \/ RaiseInTry(reason)
    /\ UNCHANGED <<attempt_number, chrome_driver_path, setup, outcomes, logged,
                   browser, loops, urlv, api, mainv>>

\* line 268: driver.get(login_url)
Navigate ==
    PageStep("navigate", "fill_form", "NavigationFailure") /\ UNCHANGED first_screen

\* lines 272-287: wait for and fill user id and password
FillForm ==
    PageStep("fill_form", "submit_login", "TimeoutFailure") /\ UNCHANGED first_screen

\* the letters of translate()'s second and third argument (lines 296-297)
UPPER ==
    <<"A", "B", "C", "D", "E", "F", "G", "H", "I", "J", "K", "L", "M",
      "N", "O", "P", "Q", "R", "S", "T", "U", "V", "W", "X", "Y", "Z">>
lower ==
    <<"a", "b", "c", "d", "e", "f", "g", "h", "i", "j", "k", "l", "m",
      "n", "o", "p", "q", "r", "s", "t", "u", "v", "w", "x", "y", "z">>

\* a translate() that leaves every character as it is
translate_keep(c) == c

\* XPath translate(., 'ABC...Z', 'abc...z') on one character
translate(c) ==
    IF \E i \in 1..Len(UPPER) : UPPER[i] = c
    THEN lower[CHOOSE i \in 1..Len(UPPER) : UPPER[i] = c]
    ELSE c

\* translate() on the text of an element
Translated(t) == [i \in 1..Len(t) |-> translate(t[i])]

login_word == <<"l", "o", "g", "i", "n">>
sign_in_word == <<"s", "i", "g", "n", " ", "i", "n">>

\* texts of the buttons a first screen shows
ButtonTexts ==
    { <<"L", "O", "G", "I", "N">>,
      <<"L", "o", "g", " ", "i", "n">>,
      <<"S", "i", "g", "n", " ", "I", "n">>,
      <<"N", "e", "x", "t">> }

Buttons == [type_submit : BOOLEAN, text : ButtonTexts]

\* the button elements of a first screen, in document order
Pages == UNION { [1..n -> Buttons] : n \in 0..MaxButtons }

\* line 290: //button[@type="submit"]
is_submit(b) == b.type_submit

\* lines 296-297: the text, lower-cased, contains 'login' or 'sign in'
is_login_text(b) ==
    \/ Contains(Translated(b.text), login_word)
    \/ Contains(Translated(b.text), sign_in_word)

\* line 290: driver.find_elements, the submit-typed buttons in document order
find_submit_btns(pg) ==
    LET Test(i) == is_submit(pg[i])
    IN  SelectSeq([i \in 1..Len(pg) |-> i], Test)

\* lines 294-298: driver.find_elements, the buttons with a login text
find_alt_btns(pg) ==
    LET Test(i) == is_login_text(pg[i])
    IN  SelectSeq([i \in 1..Len(pg) |-> i], Test)

\* lines 290-302: click the submit button, or the login / sign in button
SubmitLogin ==
    /\ pc = "submit_login"
    /\ \E pg \in Pages, clickOk \in BOOLEAN :
          LET submit_btns == find_submit_btns(pg)
              alt_btns == find_alt_btns(pg)
              target == IF submit_btns # <<>> THEN submit_btns[1]
                        ELSE IF alt_btns # <<>> THEN alt_btns[1]
                        ELSE 0
          IN  /\ page' = pg
              /\ clicked' = target
              /\ IF target # 0
                 THEN IF clickOk
                      THEN /\ pc' = "totp_locate"
                           /\ firstClicks' = firstClicks + 1
                           /\ UNCHANGED failure
                      ELSE /\ RaiseInTry("ClickFailure")
                           /\ UNCHANGED firstClicks
                 ELSE /\ RaiseInTry("SubmitNotFound")
                      /\ UNCHANGED firstClicks
    /\ UNCHANGED <<attempt_number, chrome_driver_path, setup, outcomes, logged,
                   browser, loops, urlv, api, mainv>>

\* lines 305-317: wait for the TOTP field, compute the code
TotpLocate ==
    /\ PageStep("totp_locate", "otp_entry", "TimeoutFailure")
    /\ page' = <<>> /\ clicked' = -1
    /\ UNCHANGED firstClicks

\* an entry loop that allows one try more
entry_may_retry_late(i) == i < max_retries

\* line 327: is another entry try left after try i failed
entry_may_retry(i) == i < max_retries - 1

\* lines 320-335: one iteration of the TOTP entry loop
OtpEntryTry ==
    /\ pc = "otp_entry"
    /\ entryTries' = entryTries + 1
    /\ \/ \* clear and send_keys worked: break
          /\ pc' = "otp_submit"
          /\ UNCHANGED <<entry_attempt, failure>>
       \/ \* they raised: the except clause
          IF entry_may_retry(entry_attempt)
          THEN \/ \* find_element returned the field again
                  /\ entry_attempt' = entry_attempt + 1
                  /\ UNCHANGED <<pc, failure>>
               \/ \* find_element raised inside the except clause
                  /\ RaiseInTry("OtpRelocateFailure")
                  /\ UNCHANGED entry_attempt
          ELSE /\ RaiseInTry("OtpEntryFailure")
               /\ UNCHANGED entry_attempt
    /\ UNCHANGED <<attempt_number, chrome_driver_path, setup, outcomes, logged,
                   browser, first_screen, submit_attempt, submitClicks, poll, absentTries,
                   urlv, api, mainv>>

\* an auto-submit test that knows the request_token marker only
AutoSubmitted_tokenOnly(u1, u2) == Contains(u1, <<RT>>)

\* line 361-364: the auto-submit test, current_url is read twice
AutoSubmitted(u1, u2) == Contains(u1, <<RT>>) \/ Contains(u2, <<SS>>)

\* lines 368-372: the except clause of the TOTP submit loop
SubmitHandler(reason) ==
    IF submit_attempt < max_retries - 1
    THEN /\ submit_attempt' = submit_attempt + 1
         /\ UNCHANGED <<pc, failure>>
    ELSE /\ RaiseInTry(reason)
         /\ UNCHANGED submit_attempt

\* lines 339-372: one iteration of the TOTP submit loop
OtpSubmitTry ==
    /\ pc = "otp_submit"
    /\ \E findOk \in BOOLEAN, found \in BOOLEAN, clickOk \in BOOLEAN,
          u1 \in PolledUrls, u2 \in PolledUrls :
          /\ poll' = IF findOk /\ ~found THEN <<u1, u2>> ELSE NoPoll
          /\ absentTries' = IF findOk /\ ~found /\ ~AutoSubmitted(u1, u2)
                            THEN absentTries + 1 ELSE absentTries
          /\ IF ~findOk
             THEN SubmitHandler("FindFailure") /\ UNCHANGED submitClicks
             ELSE IF found
                  THEN IF clickOk
                       THEN /\ submitClicks' = submitClicks + 1
                            /\ pc' = "wait_terminal"
                            /\ UNCHANGED <<submit_attempt, failure>>
                       ELSE SubmitHandler("ClickFailure") /\ UNCHANGED submitClicks
                  ELSE IF AutoSubmitted(u1, u2)
                       THEN /\ pc' = "wait_terminal"
                            /\ UNCHANGED <<submit_attempt, failure, submitClicks>>
                       ELSE /\ SubmitHandler("OtpSubmitNotFound")
                            /\ UNCHANGED submitClicks
    /\ UNCHANGED <<attempt_number, chrome_driver_path, setup, outcomes, logged,
                   browser, first_screen, entry_attempt, entryTries, urlv, api, mainv>>

\* line 376: `EC.url_contains("request_token") or EC.url_contains(...)` is
\* python's `or` of two callables, which is its first operand
wait_condition(u) == Contains(u, <<RT>>)

\* lines 375-377: wait.until(...) returns on a URL that meets the condition,
\* or times out on a URL that does not
WaitTerminal ==
    /\ pc = "wait_terminal"
    /\ \E u \in ObservedUrls :
          /\ wait_url' = u
          /\ IF wait_condition(u)
             THEN pc' = "read_url" /\ UNCHANGED failure
             ELSE RaiseInTry("TimeoutFailure")
    /\ poll' = NoPoll /\ absentTries' = 0
    /\ UNCHANGED <<attempt_number, chrome_driver_path, setup, outcomes, logged,
                   browser, first_screen, entry_attempt, entryTries, submit_attempt, submitClicks,
                   rt_url, rt, session_arg, api, mainv>>

\* line 378: rt_url = driver.current_url, read after the wait returned
ReadUrl(U) ==
    /\ pc = "read_url"
    /\ \E u \in U : rt_url' = u
    /\ wait_url' = NoUrl
    /\ pc' = "extract"
    /\ UNCHANGED <<attempt_number, chrome_driver_path, setup, failure, outcomes, logged,
                   browser, loops, first_screen, rt, session_arg, api, mainv>>

\* lines 380-389
Extract ==
    /\ pc = "extract"
    /\ LET e == ExtractToken(rt_url) IN
          IF e.ok
          THEN /\ rt' = e.rt
               /\ pc' = "exchange"
               /\ UNCHANGED failure
          ELSE /\ RaiseInTry("TokenNotFound")
               /\ UNCHANGED rt
    /\ UNCHANGED <<attempt_number, chrome_driver_path, setup, outcomes, logged,
                   browser, loops, first_screen, wait_url, rt_url, session_arg, api, mainv>>

\* line 391: generate_session(rt, api_secret); the k-th call issues token k
Exchange ==
    /\ pc = "exchange"
    /\ session_arg' = rt
    /\ \/ /\ data' = Len(exchanges) + 1
          /\ exchanges' = Append(exchanges,
                [attempt |-> attempt_number, token |-> Len(exchanges) + 1])
          /\ pc' = "store_token"
          /\ UNCHANGED failure
       \/ /\ exchanges' = Append(exchanges,
                [attempt |-> attempt_number, token |-> 0])
          /\ RaiseInTry("ExchangeFailure")
          /\ UNCHANGED data
    /\ UNCHANGED <<attempt_number, chrome_driver_path, setup, outcomes, logged,
                   browser, loops, first_screen, wait_url, rt_url, rt, kite, access_token, mainv>>

\* the steps after the exchange, storing v in self.access_token
StoreTokenAs(v) ==
    /\ pc = "store_token"
    /\ access_token' = v
    /\ \/ /\ pc' = "return"
          /\ UNCHANGED failure
       \/ RaiseInTry("PostExchangeFailure")
    /\ UNCHANGED <<attempt_number, chrome_driver_path, setup, outcomes, logged,
                   browser, loops, first_screen, urlv, kite, data, exchanges, mainv>>

\* a token is stored only while none is held
StoreToken_keepFirst == StoreTokenAs(IF access_token = 0 THEN data ELSE access_token)

\* lines 392-404: self.access_token = data["access_token"], set_access_token,
\* the banner prints (line 398 prints a non-ASCII character)
StoreToken == StoreTokenAs(data)

\* line 406: return self.kite, self.access_token
Return ==
    /\ pc = "return"
    /\ result' = access_token
    /\ pc' = "finally"
    /\ UNCHANGED <<attempt_number, chrome_driver_path, setup, failure, outcomes, logged,
                   browser, loops, first_screen, urlv, api, saveCalls, coll, printed, exit_status>>

\* lines 408-410: log and re-raise
ExceptLog ==
    /\ pc = "except"
    /\ pc' = "finally"
    /\ poll' = NoPoll /\ absentTries' = 0
    /\ page' = <<>> /\ clicked' = -1
    /\ UNCHANGED firstClicks
    /\ UNCHANGED <<attempt_number, chrome_driver_path, setup, failure, outcomes, logged,
                   browser, entry_attempt, entryTries, submit_attempt, submitClicks,
                   urlv, api, mainv>>

\* the end of the try statement; doQuit: is driver.quit() invoked; passOver:
\* is an exception of driver.quit() caught and dropped
FinallyExit(doQuit, passOver) ==
    /\ pc = "finally"
    /\ quits' = IF doQuit THEN quits + 1 ELSE quits
    /\ alive' = IF doQuit THEN alive \ {driver} ELSE alive
    /\ \E quitOk \in BOOLEAN :
          /\ quit_raised' = (doQuit /\ ~quitOk)
          /\ failure' = IF doQuit /\ ~quitOk /\ ~passOver
                        THEN "QuitFailure" ELSE failure
    /\ IF failure' = "none"
       THEN /\ outcomes' = Append(outcomes, "ok")
            /\ pc' = "returned"
       ELSE /\ outcomes' = Append(outcomes, "fail")
            /\ pc' = "retry"
    \* the locals of login go out of scope
    /\ driver' = 0
    /\ launch_log' = <<>>
    /\ entry_attempt' = 0 /\ entryTries' = 0
    /\ submit_attempt' = 0 /\ submitClicks' = 0
    /\ page' = <<>> /\ clicked' = -1 /\ firstClicks' = 0
    /\ poll' = NoPoll /\ absentTries' = 0
    /\ wait_url' = NoUrl /\ rt_url' = NoUrl /\ rt' = <<>> /\ session_arg' = NoUrl
    /\ data' = 0
    /\ UNCHANGED <<attempt_number, chrome_driver_path, setup, logged,
                   sessions, launches, kite, access_token, exchanges, mainv>>

\* quit only on the return path, as if it sat at the end of the try block
FinallyQuit_onReturnOnly == FinallyExit(failure = "none", TRUE)

\* a finally clause without the try/except around driver.quit()
FinallyQuit_unguarded == FinallyExit(TRUE, FALSE)

\* lines 411-415: driver.quit() is invoked on every path, its own failure is
\* passed over, then the return or the exception in flight leaves login
FinallyQuit == FinallyExit(TRUE, TRUE)

\* a wrapper that stops one attempt later
should_stop_late(n) == n > stop_max_attempt_number

\* retrying: stop_max_attempt_number (line 210)
should_stop(n) == n >= stop_max_attempt_number

\* line 210: the wrapper after a failed attempt: give up or call login again
RetryWrapper ==
    /\ pc = "retry"
    /\ IF should_stop(attempt_number)
       THEN /\ pc' = "main_except"
            /\ UNCHANGED attempt_number
       ELSE /\ attempt_number' = attempt_number + 1
            /\ pc' = "login_start"
    /\ UNCHANGED <<chrome_driver_path, setup, failure, outcomes, logged,
                   browser, loops, first_screen, urlv, api, mainv>>

\* ------------------------------------------------------------------ main
\* lines 152-197: one call of save_token_to_mongo
save_token_to_mongo(tok, now, ok) ==
    /\ saveCalls' = Append(saveCalls, [tok |-> tok, now |-> now, ok |-> ok])
    /\ coll' = IF ok THEN update_one(coll, tok, now) ELSE coll
    /\ logged' = IF ok THEN logged ELSE logged \cup {"mongo"}

\* the save step of main; propagate: does a failure of the save reach line 432
MainSaveStep(propagate) ==
    /\ pc = "returned"
    /\ \E now \in Times, ok \in BOOLEAN :
          /\ save_token_to_mongo(result, now, ok)
          /\ IF ok \/ ~propagate
             THEN pc' = "print" /\ UNCHANGED failure
             ELSE pc' = "main_except" /\ failure' = "MongoFailure"
    /\ UNCHANGED <<attempt_number, chrome_driver_path, setup, outcomes,
                   browser, loops, first_screen, urlv, api, result, printed, exit_status>>

\* a save whose failure is passed over
MainSave_swallow == MainSaveStep(FALSE)

\* lines 424-427: login returned, save the token
MainSave == MainSaveStep(TRUE)

\* line 430 and the normal end of the process
MainPrint ==
    /\ pc = "print"
    /\ printed' = result
    /\ exit_status' = 0
    /\ pc' = "done"
    /\ UNCHANGED <<attempt_number, chrome_driver_path, setup, failure, outcomes, logged,
                   browser, loops, first_screen, urlv, api, result, saveCalls, coll>>

\* lines 432-434: log and sys.exit(1)
MainExcept ==
    /\ pc = "main_except"
    /\ logged' = logged \cup {"main"}
    /\ exit_status' = 1
    /\ pc' = "done"
    /\ UNCHANGED <<attempt_number, chrome_driver_path, setup, failure, outcomes,
                   browser, loops, first_screen, urlv, api, result, saveCalls, coll, printed>>

ReadTerminalUrl == ReadUrl(ObservedUrls)

Next ==
    \/ LoginStart \/ LaunchPath \/ LaunchWdm \/ Navigate \/ FillForm
    \/ SubmitLogin \/ TotpLocate \/ OtpEntryTry \/ OtpSubmitTry
    \/ WaitTerminal \/ ReadTerminalUrl \/ Extract \/ Exchange \/ StoreToken
    \/ Return \/ ExceptLog \/ FinallyQuit \/ RetryWrapper
    \/ MainSave \/ MainPrint \/ MainExcept

Spec == Init /\ [][Next]_vars

\* the program is sequential and every call it makes returns or raises, so a
\* step that can be taken is eventually taken
InitFair == Init /\ coll = <<>>

SpecFair == InitFair /\ [][Next]_vars /\ WF_vars(Next)


\* ------------------------------------ the browser options of one attempt
\* the first attempt under every environment and profile setting
InitOptions ==
    /\ pc = "login_start"
    /\ attempt_number = 1
    /\ chrome_driver_path = FALSE
    /\ GITHUB_ACTIONS \in EnvValues
    /\ CHROME_BIN \in BinValues
    /\ chrome_user_data_dir \in DirValues
    /\ chrome_options = NoOptions
    /\ kite = 0 /\ access_token = 0 /\ data = 0 /\ exchanges = <<>>
    /\ driver = 0 /\ sessions = 0 /\ alive = {} /\ launches = 0 /\ quits = 0
    /\ launch_log = <<>> /\ quit_raised = FALSE
    /\ failure = "none" /\ outcomes = <<>> /\ logged = {}
    /\ entry_attempt = 0 /\ entryTries = 0
    /\ submit_attempt = 0 /\ submitClicks = 0
    /\ page = <<>> /\ clicked = -1 /\ firstClicks = 0
    /\ poll = NoPoll /\ absentTries = 0
    /\ wait_url = NoUrl /\ rt_url = NoUrl /\ rt = <<>> /\ session_arg = NoUrl
    /\ result = 0 /\ saveCalls = <<>> /\ coll = <<>>
    /\ printed = 0 /\ exit_status = -1

NextOptions == LoginStart

SpecOptions == InitOptions /\ [][NextOptions]_vars

\* ------------------------------------------------- extraction on any URL
\* the state after the terminal wait of a first attempt returned
InitExtract ==
    /\ pc = "read_url"
    /\ attempt_number = 1
    /\ chrome_driver_path = FALSE
    /\ GITHUB_ACTIONS = None /\ CHROME_BIN = None /\ chrome_user_data_dir = None
    /\ chrome_options = chrome_options_for(None, None, None)
    /\ kite = 1 /\ access_token = 0 /\ data = 0 /\ exchanges = <<>>
    /\ driver = 1 /\ sessions = 1 /\ alive = {1} /\ launches = 1 /\ quits = 0
    /\ launch_log = <<"wdm_ok">> /\ quit_raised = FALSE
    /\ failure = "none" /\ outcomes = <<>> /\ logged = {}
    /\ entry_attempt = 0 /\ entryTries = 1
    /\ submit_attempt = 0 /\ submitClicks = 1
    /\ page = <<>> /\ clicked = -1 /\ firstClicks = 1
    /\ poll = NoPoll /\ absentTries = 0
    /\ wait_url = <<RT, "=", "a">> /\ rt_url = NoUrl /\ rt = <<>>
    /\ session_arg = NoUrl
    /\ result = 0 /\ saveCalls = <<>> /\ coll = <<>>
    /\ printed = 0 /\ exit_status = -1

ReadAnyUrl == ReadUrl(AllUrls)

NextExtract == ReadAnyUrl \/ Extract \/ Exchange

SpecExtract == InitExtract /\ [][NextExtract]_vars

\* ------------------------------------- save_token_to_mongo, run after run
\* the collection as successive runs of the program find it; nothing but the
\* collection is carried from one run to the next
InitMongo ==
    /\ pc = "save_runs"
    /\ attempt_number = 1
    /\ chrome_driver_path = FALSE
    /\ GITHUB_ACTIONS = None /\ CHROME_BIN = None /\ chrome_user_data_dir = None
    /\ chrome_options = NoOptions
    /\ kite = 0 /\ access_token = 0 /\ data = 0 /\ exchanges = <<>>
    /\ driver = 0 /\ sessions = 0 /\ alive = {} /\ launches = 0 /\ quits = 0
    /\ launch_log = <<>> /\ quit_raised = FALSE
    /\ failure = "none" /\ outcomes = <<>> /\ logged = {}
    /\ entry_attempt = 0 /\ entryTries = 0
    /\ submit_attempt = 0 /\ submitClicks = 0
    /\ page = <<>> /\ clicked = -1 /\ firstClicks = 0
    /\ poll = NoPoll /\ absentTries = 0
    /\ wait_url = NoUrl /\ rt_url = NoUrl /\ rt = <<>> /\ session_arg = NoUrl
    /\ result = 0 /\ saveCalls = <<>> /\ coll \in InitialColls
    /\ printed = 0 /\ exit_status = -1

SaveRun ==
    /\ pc = "save_runs"
    /\ Len(saveCalls) < MaxSaves
    /\ \E tok \in 1..MaxTokens, now \in Times, ok \in BOOLEAN :
          save_token_to_mongo(tok, now, ok)
    /\ UNCHANGED <<pc, attempt_number, chrome_driver_path, setup, failure, outcomes,
                   browser, loops, first_screen, urlv, api, result, printed, exit_status>>

NextMongo == SaveRun

SpecMongo == InitMongo /\ [][NextMongo]_vars


\* ================================================================ claims
LoginReturned == outcomes # <<>> /\ outcomes[Len(outcomes)] = "ok"
AllFailed(n) == Len(outcomes) = n /\ \A i \in 1..n : outcomes[i] = "fail"
InLoginBody ==
    pc \in {"login_start", "launch", "launch_wdm", "navigate", "fill_form",
            "submit_login", "totp_locate", "otp_entry", "otp_submit",
            "wait_terminal", "read_url", "extract", "exchange", "store_token",
            "return", "except", "finally"}
InTryBlock ==
    pc \in {"navigate", "fill_form", "submit_login", "totp_locate", "otp_entry",
            "otp_submit", "wait_terminal", "read_url", "extract", "exchange",
            "store_token", "return", "except", "finally"}

\* C1: under the retry wrapper the login body runs at most 3 times; an attempt
\* starts only after every earlier attempt failed; an attempt that returns ends
\* the retrying; after the third failed attempt the failure reaches main and no
\* fourth attempt starts.
C1_RetryAtMostThree ==
    /\ attempt_number \in 1..stop_max_attempt_number
    /\ Len(outcomes) <= stop_max_attempt_number
    /\ InLoginBody => /\ Len(outcomes) = attempt_number - 1
                      /\ \A i \in 1..Len(outcomes) : outcomes[i] = "fail"
    /\ \A i \in 1..(Len(outcomes) - 1) : outcomes[i] = "fail"
    /\ LoginReturned => pc \in {"returned", "print", "main_except", "done"}
    /\ AllFailed(stop_max_attempt_number) => pc \in {"retry", "main_except", "done"}
    /\ (pc = "main_except" /\ ~LoginReturned) => AllFailed(stop_max_attempt_number)

\* three attempts failed and the failure is on its way to main
C1_Witness == pc = "main_except" /\ AllFailed(stop_max_attempt_number)

\* C2 as stated: every attempt cycle, also one that fails before the browser
\* is up, launches exactly one session and quits it exactly once.
C2_ExactlyOneLaunchAndQuit ==
    pc \in {"retry", "returned"} => launches = 1 /\ quits = 1

\* C2 amended: every attempt cycle launches at most one session and quits each
\* launched session exactly once; a cycle that fails on the login URL or on the
\* browser start launches none and quits none.
C2_AtMostOneLaunchQuitEach ==
    /\ launches <= 1 /\ quits <= launches
    /\ pc \in {"retry", "returned"} =>
          /\ quits = launches
          /\ launches = 0 <=> failure \in {"ApiFailure", "LaunchFailure"}

\* a cycle with a fixed driver path ended on a launch failure: no session
C2_Witness ==
    pc = "retry" /\ failure = "LaunchFailure" /\ chrome_driver_path
    /\ launches = 0 /\ quits = 0

\* C3: a session obtained by an attempt gets driver.quit on every exit path of
\* that attempt, before the next attempt launches and before the process ends;
\* two sessions are never alive together.
C3_QuitOnEveryPath ==
    /\ Cardinality(alive) <= 1
    /\ InTryBlock /\ pc # "finally" => driver # 0 /\ alive = {driver}
    /\ (~InTryBlock /\ pc # "launch_wdm") => alive = {}
    /\ pc = "launch_wdm" => alive = (IF driver = 0 THEN {} ELSE {driver})
    /\ (pc \in {"retry", "returned"} /\ launches = 1) => quits = 1

\* a second session is up after the first attempt failed past the launch
C3_Witness == sessions = 2 /\ alive = {2} /\ outcomes = <<"fail">>

LastExchange == exchanges[Len(exchanges)]

\* C4: main calls save_token_to_mongo once when login returned and never when
\* it failed; the argument is the access_token of the generate_session call of
\* the attempt that returned, made before the save.
C4_SaveOnceWithExchangedToken ==
    /\ Len(saveCalls) <= 1
    /\ pc \in {"print", "main_except", "done"} =>
          (Len(saveCalls) = 1 <=> LoginReturned)
    /\ saveCalls # <<>> =>
          /\ exchanges # <<>>
          /\ LastExchange.attempt = Len(outcomes)
          /\ LastExchange.token # 0
          /\ saveCalls[1].tok = LastExchange.token
          /\ \A i \in 1..(Len(exchanges) - 1) :
                exchanges[i].token # saveCalls[1].tok

\* the save got the second token after a first attempt failed holding the first
C4_Witness ==
    /\ saveCalls # <<>>
    /\ Len(exchanges) = 2
    /\ exchanges[1].token = 1
    /\ saveCalls[1].tok = 2

SaveSucceeded == saveCalls # <<>> /\ saveCalls[Len(saveCalls)].ok

\* C5: the process ends with status 0 and the token printed exactly when login
\* and the save both succeeded; otherwise the error is logged and the status
\* is non-zero with no token print.
C5_ExitContract ==
    /\ pc # "done" => exit_status = -1 /\ printed = 0
    /\ pc = "done" =>
          /\ (exit_status = 0 /\ printed # 0) <=> (LoginReturned /\ SaveSucceeded)
          /\ (LoginReturned /\ SaveSucceeded) => printed = LastExchange.token
          /\ ~(LoginReturned /\ SaveSucceeded) =>
                exit_status = 1 /\ printed = 0 /\ "main" \in logged

\* login returned, the save raised, the process ended with status 1
C5_Witness ==
    pc = "done" /\ LoginReturned /\ ~SaveSucceeded /\ exit_status = 1

\* the text after the first occurrence of p in s
AfterFirst(s, p) == SubSeq(s, Find(s, p) + Len(p), Len(s))

\* the text after the last occurrence of p in s
AfterLast(s, p) ==
    LET i == CHOOSE k \in 1..Len(s) :
                /\ OccursAt(s, p, k)
                /\ \A j \in (k + 1)..Len(s) : ~OccursAt(s, p, j)
    IN SubSeq(s, i + Len(p), Len(s))

\* the text of s before its first "&", all of s when it has none
UpToAmp(s) ==
    IF Find(s, <<"&">>) = 0 THEN s ELSE SubSeq(s, 1, Find(s, <<"&">>) - 1)

\* the first request_token= of the URL is followed by a code character
MarkerThenCode(u) ==
    /\ Contains(u, RT_EQ)
    /\ AfterFirst(u, RT_EQ) # <<>>
    /\ Head(AfterFirst(u, RT_EQ)) = "a"

\* C6: for a URL with request_token= followed by a code, the extraction gives
\* the characters between the first request_token= and the next "&" (or the
\* end), and that value is handed to generate_session.
C6_ExtractUpToSeparator ==
    (rt_url # NoUrl /\ MarkerThenCode(rt_url)) =>
        /\ pc = "exchange" => rt = UpToAmp(AfterFirst(rt_url, RT_EQ))
        /\ session_arg # NoUrl => session_arg = UpToAmp(AfterFirst(rt_url, RT_EQ))
        /\ failure # "TokenNotFound"

\* C7: for a URL with request_token but without request_token=, the extracted
\* code is everything after the marker up to the end of the URL with the
\* leading =&#?/ removed, also when the marker occurs more than once.
C7_BareMarkerRestOfUrl ==
    (pc = "exchange" /\ Contains(rt_url, <<RT>>) /\ ~Contains(rt_url, RT_EQ)) =>
        \/ rt = LStrip(AfterFirst(rt_url, <<RT>>), StripChars)
        \/ rt = LStrip(AfterLast(rt_url, <<RT>>), StripChars)

\* the URL the attempt observed after the OTP step: the one read for the
\* extraction, or the one the terminal wait ended on
ObservedUrl == IF rt_url # NoUrl THEN rt_url ELSE wait_url
ObservedNeither ==
    /\ ObservedUrl # NoUrl
    /\ ~Contains(ObservedUrl, <<RT>>)
    /\ ~Contains(ObservedUrl, <<SS>>)
ExchangedInAttempt ==
    \E i \in 1..Len(exchanges) : exchanges[i].attempt = attempt_number

\* C8 as stated: a URL after the OTP step with neither marker fails the
\* attempt with TokenNotFound and without a generate_session call.
C8_NeitherMarkerTokenNotFound ==
    (InTryBlock /\ ObservedNeither) =>
        /\ pc \in {"except", "finally"}
        /\ failure = "TokenNotFound"
        /\ ~ExchangedInAttempt

\* C8 amended: a URL after the OTP step with neither marker fails the attempt
\* without a generate_session call: with the timeout of the terminal wait when
\* the wait ended on it, with TokenNotFound when it was read for the extraction.
C8_NeitherMarkerFails ==
    (InTryBlock /\ ObservedNeither /\ pc # "extract") =>
        /\ pc \in {"except", "finally"}
        /\ failure = (IF rt_url = NoUrl THEN "TimeoutFailure" ELSE "TokenNotFound")
        /\ ~ExchangedInAttempt
        /\ session_arg = NoUrl

\* the URL read for the extraction has neither marker: TokenNotFound
C8_Witness ==
    pc = "except" /\ rt_url = <<"a">> /\ failure = "TokenNotFound"

\* C9: the OTP entry is tried up to 3 times; the step fails only after 3 tries
\* failed, never after fewer; after a try that worked no further try is made.
C9_EntryTriedThreeTimes ==
    /\ entryTries <= max_retries
    /\ (pc = "except" /\ failure \in {"OtpEntryFailure", "OtpRelocateFailure"}) =>
          entryTries = max_retries

IdentityDocs == {i \in 1..Len(coll) : coll[i].updatedBy = TOKEN_UPDATED_BY}
IdentityDoc == coll[FirstMatch(coll)]
LastSave == saveCalls[Len(saveCalls)]
LastOkSave ==
    saveCalls[CHOOSE i \in 1..Len(saveCalls) :
                 /\ saveCalls[i].ok
                 /\ \A j \in (i + 1)..Len(saveCalls) : ~saveCalls[j].ok]

\* after a save that worked: one record of the identity, holding that save
C10_OneRecord ==
    (\E i \in 1..Len(saveCalls) : saveCalls[i].ok) =>
        /\ Cardinality(IdentityDocs) = 1
        /\ IdentityDoc.accessToken = LastOkSave.tok
        /\ IdentityDoc.updatedAt = LastOkSave.now
        /\ IdentityDoc.expiresAt = LastOkSave.now + ExpiryHours

\* a save that finds the record leaves its createdAt; one that inserts sets it
C10_CreatedAtKept ==
    (saveCalls' # saveCalls /\ saveCalls'[Len(saveCalls')].ok) =>
        LET new == coll'[FirstMatch(coll')] IN
        IF FirstMatch(coll) = 0
        THEN new.createdAt = saveCalls'[Len(saveCalls')].now
        ELSE new.createdAt = IdentityDoc.createdAt

\* C10: after each successful save_token_to_mongo call, from an empty
\* collection or one holding the record, exactly 1 document has the fixed
\* updatedBy; later calls overwrite accessToken, updatedAt and expiresAt
\* (= updatedAt + 24 hours) and leave createdAt as the first call set it.
C10_UpsertIdempotent == []C10_OneRecord /\ [][C10_CreatedAtKept]_vars

\* two saves worked at different times: one record, createdAt of the first
C10_Witness ==
    /\ Len(saveCalls) = 2
    /\ saveCalls[1].ok /\ saveCalls[2].ok
    /\ saveCalls[1].now # saveCalls[2].now
    /\ saveCalls[1].tok # saveCalls[2].tok
    /\ Cardinality(IdentityDocs) = 1
    /\ IdentityDoc.createdAt = saveCalls[1].now
    /\ IdentityDoc.updatedAt = saveCalls[2].now


\* C11: with every call returning or raising, each run of main ends: at most
\* 3 attempts, each with at most 3 OTP entry tries and 3 OTP submit tries, then
\* the exit-0 or the non-zero-exit end state.
C11_TerminatesWithinBounds ==
    /\ <>(pc = "done" /\ exit_status \in {0, 1})
    /\ [](/\ attempt_number <= stop_max_attempt_number
          /\ Len(outcomes) <= stop_max_attempt_number
          /\ entryTries <= max_retries
          /\ entry_attempt <= max_retries - 1
          /\ submit_attempt <= max_retries - 1)

\* the run ended after three attempts, the last with all its entry tries used
C11_Witness ==
    pc = "done" /\ exit_status = 1 /\ AllFailed(stop_max_attempt_number)
    /\ failure = "OtpEntryFailure"


\* C12: the wait after the OTP submit step concludes as soon as the URL has
\* request_token or status=success; a URL with only status=success ends the
\* wait without a timeout.
C12_WaitEndsOnEitherMarker ==
    (wait_url # NoUrl
     /\ (Contains(wait_url, <<RT>>) \/ Contains(wait_url, <<SS>>))) =>
        pc = "read_url" /\ failure = "none"

\* C13: generate_session is never called with an empty code; a URL that
\* yields no non-empty code fails the attempt with TokenNotFound.
C13_NoEmptyCodeExchanged ==
    /\ pc = "exchange" => rt # <<>>
    /\ session_arg # NoUrl => session_arg # <<>>
    /\ (rt_url # NoUrl /\ pc # "extract" /\ ExtractToken(rt_url).rt = <<>>) =>
          failure = "TokenNotFound"


\* the state of the login state machine that a position of the attempt is in:
\* 0 not launched, 1 Launched, 2 FormSubmitted, 3 OtpEntered, 4 OtpSubmitted,
\* 5 CodeExtracted, 6 TokenExchanged
Stage(p) ==
    CASE p \in {"login_start", "launch", "launch_wdm"} -> 0
      [] p \in {"navigate", "fill_form", "submit_login"} -> 1
      [] p \in {"totp_locate", "otp_entry"} -> 2
      [] p = "otp_submit" -> 3
      [] p \in {"wait_terminal", "read_url", "extract"} -> 4
      [] p = "exchange" -> 5
      [] p \in {"store_token", "return"} -> 6
      [] OTHER -> 7
Flowing(p) == Stage(p) <= 6

C14_Step ==
    /\ (Flowing(pc) /\ Flowing(pc')) =>
          Stage(pc') \in {Stage(pc), Stage(pc) + 1}
    /\ exchanges' # exchanges =>
          /\ pc = "exchange" /\ rt_url # NoUrl /\ failure = "none"
          /\ ~ExchangedInAttempt
          /\ Len(exchanges') = Len(exchanges) + 1
    /\ (InTryBlock /\ failure # "none") =>
          /\ pc \in {"except", "finally"}
          /\ pc' \in {"finally", "retry"}
          /\ exchanges' = exchanges /\ access_token' = access_token
          /\ pc' = "finally" =>
                UNCHANGED <<entry_attempt, entryTries, submit_attempt,
                            submitClicks, urlv, browser>>
    /\ (pc' \in {"except", "finally"} /\ pc \notin {"except", "finally"}) =>
          (failure' # "none" \/ pc = "return")

C14_Inv ==
    /\ \A i, j \in 1..Len(exchanges) :
          exchanges[i].attempt = exchanges[j].attempt => i = j
    /\ Stage(pc) \in 1..6 => driver # 0 /\ failure = "none"
    /\ Stage(pc) \in 3..6 => entryTries >= 1
    /\ Stage(pc) \in 5..6 => rt_url # NoUrl
    /\ Stage(pc) = 6 => ExchangedInAttempt /\ data # 0

\* C14: within an attempt the steps come only in the order Launched,
\* FormSubmitted, OtpEntered, OtpSubmitted, CodeExtracted, TokenExchanged; no
\* step is reached before its predecessor, no earlier one is re-entered,
\* generate_session is called at most once per attempt and only after the
\* extraction, and a failed attempt makes no further UI step or exchange.
C14_OrderedStates == []C14_Inv /\ [][C14_Step]_vars

\* a second attempt got to its return after a repeated OTP entry
C14_Witness ==
    pc = "return" /\ attempt_number = 2 /\ entryTries = 2 /\ failure = "none"


HasMarker(u) == Contains(u, <<RT>>) \/ Contains(u, <<SS>>)

\* one try of the OTP submit loop
C15_Try ==
    pc = "otp_submit" =>
        \* a click that worked ends the step and is the only one
        /\ submitClicks' # submitClicks =>
              /\ submitClicks = 0 /\ submitClicks' = 1
              /\ pc' = "wait_terminal" /\ poll' = NoPoll
        \* no control found: the URL decides (for a URL that is the same at
        \* both reads of current_url)
        /\ (poll' # NoPoll /\ poll'[1] = poll'[2]) =>
              IF HasMarker(poll'[1])
              THEN pc' = "wait_terminal" /\ failure' = "none"
                   /\ submitClicks' = submitClicks
              ELSE /\ absentTries' = absentTries + 1
                   /\ pc' \in {"otp_submit", "except"}
        /\ pc' = "wait_terminal" =>
              \/ submitClicks' = 1
              \/ poll' # NoPoll /\ (HasMarker(poll'[1]) \/ HasMarker(poll'[2]))
        /\ pc' = "otp_submit" => submit_attempt' = submit_attempt + 1
        /\ pc' = "except" => submit_attempt = max_retries - 1
        /\ failure' = "OtpSubmitNotFound" =>
              poll' # NoPoll /\ (poll'[1] = poll'[2] => ~HasMarker(poll'[1]))

C15_Inv ==
    /\ submit_attempt <= max_retries - 1
    /\ submitClicks <= 1
    /\ absentTries = max_retries =>
          pc = "except" /\ failure = "OtpSubmitNotFound"
    /\ failure = "OtpSubmitNotFound" =>
          wait_url = NoUrl /\ rt_url = NoUrl /\ session_arg = NoUrl
          /\ submitClicks = 0

\* C15: in each of at most 3 tries of the OTP submit step a control that is
\* found is clicked and the click ends the step (one successful click at most);
\* without a control the URL is polled and request_token or status=success
\* ends the step as auto-submitted; 3 tries without control and marker fail the
\* attempt with "TOTP submit button not found" before the terminal wait and
\* the extraction.
C15_OtpSubmitStep == []C15_Inv /\ [][C15_Try]_vars

\* the third try, like the two before, found neither control nor marker
C15_Witness ==
    pc = "except" /\ absentTries = max_retries /\ failure = "OtpSubmitNotFound"


InLog(x) == \E i \in 1..Len(launch_log) : launch_log[i] = x

\* the teardown step leaves the outcome of the attempt as it found it
C16_QuitStep ==
    (pc = "finally" /\ pc' # pc) =>
        /\ attempt_number' = attempt_number
        /\ IF failure = "none"
           THEN /\ pc' = "returned" /\ failure' = "none"
                /\ result' = result /\ result = access_token /\ result # 0
                /\ outcomes' = Append(outcomes, "ok")
           ELSE /\ pc' = "retry" /\ failure' = failure
                /\ outcomes' = Append(outcomes, "fail")

\* an exception in flight is dropped nowhere before the next attempt starts
C16_FailureKept ==
    (failure # "none" /\ failure' # failure) => pc = "login_start"

\* no exception was caught and dropped in the attempt so far
C16_NothingPassedOver ==
    Flowing(pc) =>
        ~InLog("path_fail") /\ entry_attempt = 0 /\ submit_attempt = 0

\* C16 as stated: a failure of driver.quit never changes the outcome of the
\* attempt, and no other failure is swallowed inside an attempt.
C16_OnlyTeardownSwallowed ==
    /\ [][C16_QuitStep /\ C16_FailureKept]_vars
    /\ []C16_NothingPassedOver

\* what is caught and dropped while the attempt goes on: a failed start with
\* the fixed driver path, failed OTP entry tries and failed OTP submit tries
\* that were followed by another try
C16_PassedOverByRetryOnly ==
    /\ (InTryBlock /\ failure # "none") => pc \in {"except", "finally"}
    /\ Flowing(pc) =>
          /\ InLog("path_fail") =>
                chrome_driver_path /\ (Stage(pc) = 0 \/ InLog("wdm_ok"))
          /\ entry_attempt <= max_retries - 1
          /\ submit_attempt <= max_retries - 1
          /\ entryTries \in {0, entry_attempt, entry_attempt + 1}
    /\ pc = "returned" => failure = "none" /\ LoginReturned
    /\ pc = "retry" => failure # "none" /\ ~LoginReturned

\* C16 amended: a failure of driver.quit never changes the outcome of the
\* attempt (a token is still returned without a retry, a failure still
\* propagates as it was); besides teardown failures only a failed start with
\* the fixed driver path and a failed OTP entry or submit try that is followed
\* by another try are caught without failing the attempt.
C16_TeardownKeepsOutcome ==
    /\ [][C16_QuitStep /\ C16_FailureKept]_vars
    /\ []C16_PassedOverByRetryOnly

\* driver.quit raised and login still returned the token
C16_Witness ==
    pc = "returned" /\ quit_raised /\ result # 0 /\ LoginReturned

\* C17: with a fixed driver path whose start works the automatic resolution
\* is not tried; when that start fails the attempt goes on to the automatic
\* resolution; without a path the automatic resolution is tried directly; its
\* failure fails the attempt with the launch failure before any navigation;
\* one launch gives at most one session.
C17_LaunchOrder ==
    /\ launches <= 1
    /\ launch_log \in
          (IF chrome_driver_path
           THEN {<<>>, <<"path_ok">>, <<"path_fail">>,
                 <<"path_fail", "wdm_ok">>, <<"path_fail", "wdm_fail">>}
           ELSE {<<>>, <<"wdm_ok">>, <<"wdm_fail">>})
    /\ (pc = "launch_wdm" /\ ~chrome_driver_path) => launch_log = <<>>
    /\ (pc = "launch_wdm" /\ chrome_driver_path) => launch_log # <<>>
    /\ Stage(pc) \in 1..6 =>
          /\ InLog("path_ok") \/ InLog("wdm_ok")
          /\ launches = 1 /\ driver # 0
    /\ InLog("wdm_fail") =>
          /\ pc \in {"retry", "login_start", "main_except", "done"}
          /\ failure = "LaunchFailure"
          /\ launches = 0 /\ quits = 0 /\ driver = 0

\* the start with the fixed path failed and the automatic one gave the session
C17_Witness ==
    pc = "navigate" /\ launch_log = <<"path_fail", "wdm_ok">> /\ launches = 1

\* the attempt runs on what it made itself: the client of this attempt and
\* the one session this attempt launched
OwnSessionAndClient ==
    /\ Stage(pc) \in 1..6 =>
          /\ kite = attempt_number
          /\ launches = 1 /\ driver = sessions /\ alive = {driver}
    /\ pc = "launch" =>
          /\ kite = attempt_number /\ driver = 0 /\ data = 0
          /\ entryTries = 0 /\ submitClicks = 0
          /\ rt_url = NoUrl /\ rt = <<>> /\ session_arg = NoUrl

\* C18: every attempt uses only the session and the client it made, begins at
\* the first step and reads nothing of an earlier attempt; access_token is
\* unset through every failed attempt and is written only by the attempt whose
\* exchange succeeded.
C18_CleanRetryTokenUnset ==
    /\ OwnSessionAndClient
    /\ access_token # 0 =>
          \E i \in 1..Len(exchanges) : exchanges[i].token = access_token
    /\ pc \in {"except", "retry"} => access_token = 0

\* the word w stands in the text t, each letter in either case
UpperOf(c) ==
    IF \E j \in 1..Len(lower) : lower[j] = c
    THEN UPPER[CHOOSE j \in 1..Len(lower) : lower[j] = c]
    ELSE c
InAnyCase(t, w) ==
    \E i \in 0..(Len(t) - Len(w)) :
        \A k \in 1..Len(w) : t[i + k] \in {w[k], UpperOf(w[k])}
SubmitTyped(i) == page[i].type_submit
LoginText(i) ==
    \/ InAnyCase(page[i].text, login_word)
    \/ InAnyCase(page[i].text, sign_in_word)

\* C19: on the first screen the first submit-typed button is clicked when one
\* exists; otherwise the first button whose text contains login or sign in
\* in any letter case; with neither the attempt fails with SubmitNotFound and
\* enters no OTP code; an attempt at the OTP step made exactly one
\* first-screen click.
C19_FirstScreenSubmit ==
    /\ clicked > 0 =>
          /\ clicked \in 1..Len(page)
          /\ IF \E i \in 1..Len(page) : SubmitTyped(i)
             THEN /\ SubmitTyped(clicked)
                  /\ \A j \in 1..(clicked - 1) : ~SubmitTyped(j)
             ELSE /\ LoginText(clicked)
                  /\ \A j \in 1..(clicked - 1) : ~LoginText(j)
          /\ \/ pc = "totp_locate" /\ firstClicks = 1 /\ failure = "none"
             \/ pc = "except" /\ firstClicks = 0 /\ failure = "ClickFailure"
    /\ clicked = 0 =>
          /\ \A i \in 1..Len(page) : ~SubmitTyped(i) /\ ~LoginText(i)
          /\ pc = "except" /\ failure = "SubmitNotFound"
    /\ failure = "SubmitNotFound" =>
          /\ Stage(pc) \notin 1..6
          /\ firstClicks = 0 /\ entryTries = 0 /\ submitClicks = 0
    /\ firstClicks <= 1
    /\ Stage(pc) \in 2..6 => firstClicks = 1
    /\ entryTries > 0 => firstClicks = 1

\* without a submit-typed button the second button, LOGIN in capitals, is clicked
C19_Witness ==
    /\ pc = "totp_locate" /\ clicked = 2 /\ Len(page) = 2
    /\ ~page[1].type_submit /\ ~page[2].type_submit
    /\ page[2].text = <<"L", "O", "G", "I", "N">>

HasArg(a) == \E i \in 1..Len(chrome_options.args) : chrome_options.args[i] = a
CiFlagsApplied ==
    /\ HasArg(<<"--headless=new">>)
    /\ HasArg(<<"--no-sandbox">>)
    /\ HasArg(<<"--window-size=1920,1080">>)
ProfileApplied ==
    \E i \in 1..Len(chrome_options.args) :
        chrome_options.args[i][1] = "--user-data-dir"
ProfileConfigured == chrome_user_data_dir \notin {None, ""}
OptionsBuilt == pc = "launch"

\* the CI flags go with GITHUB_ACTIONS = 'true' only and never with the
\* profile directory
CiFlagsOnlyOnCi ==
    OptionsBuilt =>
        /\ CiFlagsApplied <=> GITHUB_ACTIONS = "true"
        /\ ~(CiFlagsApplied /\ ProfileApplied)
        /\ ProfileApplied =>
              /\ ProfileConfigured
              /\ chrome_options.args[1] = <<"--user-data-dir", chrome_user_data_dir>>

\* C20: for every value of GITHUB_ACTIONS and every profile setting the CI
\* flags (headless, no-sandbox, window size) are applied only on a CI runner,
\* never together with the profile directory, and whenever they are not
\* applied a configured profile directory is used.
C20_CiFlagsOrProfile ==
    OptionsBuilt =>
        /\ CiFlagsApplied => GITHUB_ACTIONS = "true"
        /\ ~(CiFlagsApplied /\ ProfileApplied)
        /\ (~CiFlagsApplied /\ ProfileConfigured) => ProfileApplied

====
